---- MODULE Spec2Model ----
(***************************************************************************)
(* A model of homeassistant/util/unit_system.py (the UnitSystem bundle,    *)
(* the two canonical instances, get_unit_system, validate_unit_system) and *)
(* of homeassistant/components/ovo_energy/config_flow.py (the user and     *)
(* reauth steps of OVOEnergyFlowHandler).                                  *)
(*                                                                         *)
(* Python objects live in a heap `objects`: a sequence of attribute        *)
(* records, an object's identity being its index.  Strings that the code   *)
(* only compares are TLA+ strings; strings that the code transforms        *)
(* character by character (the unit system keys, lower-cased by            *)
(* validate_unit_system) are sequences of one-character strings.           *)
(***************************************************************************)
EXTENDS Integers, Sequences, FiniteSets, Bags, TLC

VARIABLES
    objects,         \* heap of UnitSystem instances, identity = index
    supplied,        \* history: the arguments each instance was constructed with
    last,            \* the most recent call on the unit system API and its outcome
    callers,         \* bag of the calls in progress when callers run concurrently
    handler,         \* the OVOEnergyFlowHandler of the flow in progress
    entries,         \* the config entries of the integration
    flowLast,        \* the most recent step invocation and its outcome
    firstSupplied    \* history: the first username a reauth invocation supplied

unitVars == <<objects, supplied, last, callers>>
flowVars == <<handler, entries, flowLast, firstSupplied>>

----------------------------------------------------------------------------
(* Bounds of the model. *)

MaxObjects == 1      \* UnitSystem instances constructed besides the canonical two
CaseBits == 2        \* leading characters of a key whose case is varied freely
NumCallers == 2      \* callers that may be inside a method at the same time

----------------------------------------------------------------------------
(* homeassistant.const: category names, unit symbols, the error template. *)

ACCUMULATED_PRECIPITATION == "accumulated_precipitation"
LENGTH == "length"
MASS == "mass"
PRESSURE == "pressure"
TEMPERATURE == "temperature"
VOLUME == "volume"
WIND_SPEED == "wind_speed"

LENGTH_INCHES == "in"
LENGTH_KILOMETERS == "km"
LENGTH_MILES == "mi"
LENGTH_MILLIMETERS == "mm"
MASS_GRAMS == "g"
MASS_POUNDS == "lb"
PRESSURE_PA == "Pa"
PRESSURE_PSI == "psi"
SPEED_METERS_PER_SECOND == "m/s"
SPEED_MILES_PER_HOUR == "mph"
TEMP_CELSIUS == "°C"
TEMP_FAHRENHEIT == "°F"
VOLUME_GALLONS == "gal"
VOLUME_LITERS == "L"

\* UNIT_NOT_RECOGNIZED_TEMPLATE.format(unit, unit_type), as a sequence of tokens
UNIT_NOT_RECOGNIZED_TEMPLATE(unit, unit_type) ==
    <<"unit '", unit, "' is not a recognized ", unit_type, " unit">>

----------------------------------------------------------------------------
(* The unit system keys, as character sequences. *)

_CONF_UNIT_SYSTEM_IMPERIAL == <<"i", "m", "p", "e", "r", "i", "a", "l">>
_CONF_UNIT_SYSTEM_METRIC == <<"m", "e", "t", "r", "i", "c">>
_CONF_UNIT_SYSTEM_US_CUSTOMARY ==
    <<"u", "s", "_", "c", "u", "s", "t", "o", "m", "a", "r", "y">>

----------------------------------------------------------------------------
(* The valid unit sets: the values of the StrEnum classes. *)

LENGTH_UNITS == {"mm", "cm", "m", "km", "in", "ft", "yd", "mi"}
MASS_UNITS == {"g", "kg", "mg", "µg", "oz", "lb"}
PRESSURE_UNITS == {"Pa", "hPa", "kPa", "bar", "cbar", "mbar", "mmHg", "inHg", "psi"}
VOLUME_UNITS == {"L", "mL", "m³", "ft³", "gal", "fl. oz."}
WIND_SPEED_UNITS == {"ft/s", "m/s", "km/h", "kn", "mph"}
TEMPERATURE_UNITS == {"°C", "°F", "K"}

\* variant: accumulated precipitation checked against the PrecipitationUnit values
_is_valid_unit_precipitation(unit, unit_type) ==
    IF unit_type = LENGTH THEN unit \in LENGTH_UNITS
    ELSE IF unit_type = ACCUMULATED_PRECIPITATION THEN unit \in {"in", "mm"}
    ELSE IF unit_type = WIND_SPEED THEN unit \in WIND_SPEED_UNITS
    ELSE IF unit_type = TEMPERATURE THEN unit \in TEMPERATURE_UNITS
    ELSE IF unit_type = MASS THEN unit \in MASS_UNITS
    ELSE IF unit_type = VOLUME THEN unit \in VOLUME_UNITS
    ELSE IF unit_type = PRESSURE THEN unit \in PRESSURE_UNITS
    ELSE FALSE

_is_valid_unit(unit, unit_type) ==
    IF unit_type = LENGTH THEN unit \in LENGTH_UNITS
    ELSE IF unit_type = ACCUMULATED_PRECIPITATION THEN unit \in LENGTH_UNITS
    ELSE IF unit_type = WIND_SPEED THEN unit \in WIND_SPEED_UNITS
    ELSE IF unit_type = TEMPERATURE THEN unit \in TEMPERATURE_UNITS
    ELSE IF unit_type = MASS THEN unit \in MASS_UNITS
    ELSE IF unit_type = VOLUME THEN unit \in VOLUME_UNITS
    ELSE IF unit_type = PRESSURE THEN unit \in PRESSURE_UNITS
    ELSE FALSE

----------------------------------------------------------------------------
(* UnitSystem.__init__ *)

\* the (unit, unit_type) pairs, in the order __init__ walks them
InitPairs(a) ==
    << <<a.accumulated_precipitation, ACCUMULATED_PRECIPITATION>>,
       <<a.temperature, TEMPERATURE>>,
       <<a.length, LENGTH>>,
       <<a.wind_speed, WIND_SPEED>>,
       <<a.volume, VOLUME>>,
       <<a.mass, MASS>>,
       <<a.pressure, PRESSURE>> >>

\* ", ".join(items), every item a token sequence
RECURSIVE Join(_)
Join(items) ==
    IF items = <<>> THEN <<>>
    ELSE IF Len(items) = 1 THEN items[1]
    ELSE items[1] \o <<", ">> \o Join(Tail(items))

\* the pairs of InitPairs(a) that _is_valid_unit rejects, in order
InvalidInitPairs(a) ==
    SelectSeq(InitPairs(a), LAMBDA p : ~_is_valid_unit(p[1], p[2]))

\* variant: reports the first invalid pair only
InitErrors_first_only(a) ==
    LET bad == InvalidInitPairs(a)
    IN  IF bad = <<>> THEN <<>>
        ELSE UNIT_NOT_RECOGNIZED_TEMPLATE(bad[1][1], bad[1][2])

InitErrors(a) ==
    LET bad == InvalidInitPairs(a)
    IN  Join([i \in 1..Len(bad) |-> UNIT_NOT_RECOGNIZED_TEMPLATE(bad[i][1], bad[i][2])])

\* the attributes __init__ assigns
InitAttributes(a) ==
    [_name |-> a.name,
     accumulated_precipitation_unit |-> a.accumulated_precipitation,
     temperature_unit |-> a.temperature,
     length_unit |-> a.length,
     mass_unit |-> a.mass,
     pressure_unit |-> a.pressure,
     volume_unit |-> a.volume,
     wind_speed_unit |-> a.wind_speed]

\* the outcome of UnitSystem(name, temperature, ..., accumulated_precipitation)
UnitSystem__init__(a) ==
    LET errors == InitErrors(a)
    IN  IF errors # <<>>
        THEN [raised |-> "ValueError", message |-> errors]
        ELSE [raised |-> "None", attributes |-> InitAttributes(a)]

\* variant: the attributes are kept on the class, shared by every instance
Allocate_on_class(heap, attributes) ==
    Append([i \in 1..Len(heap) |-> attributes], attributes)

\* a new instance gets a fresh identity; the instances already there are untouched
Allocate(heap, attributes) == Append(heap, attributes)

----------------------------------------------------------------------------
(* The canonical instances, created when the module is imported. *)

METRIC_SYSTEM == 1
US_CUSTOMARY_SYSTEM == 2
IMPERIAL_SYSTEM == US_CUSTOMARY_SYSTEM

METRIC_SYSTEM_ARGS ==
    [name |-> _CONF_UNIT_SYSTEM_METRIC,
     temperature |-> TEMP_CELSIUS,
     length |-> LENGTH_KILOMETERS,
     wind_speed |-> SPEED_METERS_PER_SECOND,
     volume |-> VOLUME_LITERS,
     mass |-> MASS_GRAMS,
     pressure |-> PRESSURE_PA,
     accumulated_precipitation |-> LENGTH_MILLIMETERS]

US_CUSTOMARY_SYSTEM_ARGS ==
    [name |-> _CONF_UNIT_SYSTEM_US_CUSTOMARY,
     temperature |-> TEMP_FAHRENHEIT,
     length |-> LENGTH_MILES,
     wind_speed |-> SPEED_MILES_PER_HOUR,
     volume |-> VOLUME_GALLONS,
     mass |-> MASS_POUNDS,
     pressure |-> PRESSURE_PSI,
     accumulated_precipitation |-> LENGTH_INCHES]

----------------------------------------------------------------------------
(* The deprecated accessors.  Each returns what it reports and what it     *)
(* returns; self is an identity.                                           *)

name(heap, self) ==
    [reported |-> 1,
     ret |-> IF self = IMPERIAL_SYSTEM THEN _CONF_UNIT_SYSTEM_IMPERIAL
             ELSE heap[self]._name]

\* variant: compares the name tag instead of the identity
is_metric_by_name(heap, self) ==
    [reported |-> 1, ret |-> (heap[self]._name = _CONF_UNIT_SYSTEM_METRIC)]

is_metric(heap, self) ==
    [reported |-> 1, ret |-> (self = METRIC_SYSTEM)]

----------------------------------------------------------------------------
(* The conversion methods.  A Python value is its type and its str(); the  *)
(* converters are external: `outcome` is what the converter does when it   *)
(* is called.                                                              *)

\* isinstance(value, Number): bool is a subclass of int
IsNumber(value) == value.type \in {"int", "float", "bool"}

\* variant: the converter is called before the value is checked
ConvertBody_check_late(value, converter, from_unit, to_unit, outcome) ==
    LET calls == << [converter |-> converter, value |-> value,
                     from_unit |-> from_unit, to_unit |-> to_unit,
                     outcome |-> outcome] >>
    IN  IF outcome.raised # "None"
        THEN [raised |-> outcome.raised, ret |-> outcome.ret, calls |-> calls]
        ELSE IF ~(value.type \in {"int", "float", "bool"})
        THEN [raised |-> "TypeError",
              message |-> <<value.str, " is not a numeric value.">>,
              calls |-> calls]
        ELSE [raised |-> outcome.raised, ret |-> outcome.ret, calls |-> calls]

ConvertBody(value, converter, from_unit, to_unit, outcome) ==
    IF ~IsNumber(value)
    THEN [raised |-> "TypeError",
          message |-> <<value.str, " is not a numeric value.">>,
          calls |-> <<>>]
    ELSE [raised |-> outcome.raised,
          ret |-> outcome.ret,
          calls |-> << [converter |-> converter, value |-> value,
                        from_unit |-> from_unit, to_unit |-> to_unit,
                        outcome |-> outcome] >>]

temperature(self, value, from_unit, outcome) ==
    ConvertBody(value, "TemperatureConverter", from_unit, self.temperature_unit, outcome)

length(self, value, from_unit, outcome) ==
    ConvertBody(value, "DistanceConverter", from_unit, self.length_unit, outcome)

\* variant: converts to the length unit
accumulated_precipitation_to_length(self, value, from_unit, outcome) ==
    ConvertBody(value, "DistanceConverter", from_unit, self.length_unit, outcome)

accumulated_precipitation(self, value, from_unit, outcome) ==
    ConvertBody(value, "DistanceConverter", from_unit,
                self.accumulated_precipitation_unit, outcome)

pressure(self, value, from_unit, outcome) ==
    ConvertBody(value, "PressureConverter", from_unit, self.pressure_unit, outcome)

wind_speed(self, value, from_unit, outcome) ==
    ConvertBody(value, "SpeedConverter", from_unit, self.wind_speed_unit, outcome)

volume(self, value, from_unit, outcome) ==
    ConvertBody(value, "VolumeConverter", from_unit, self.volume_unit, outcome)

\* variant: accumulated precipitation exported as the length unit
as_dict_precipitation_as_length(self) ==
    [k \in {LENGTH, ACCUMULATED_PRECIPITATION, MASS, PRESSURE, TEMPERATURE,
            VOLUME, WIND_SPEED} |->
        CASE k = LENGTH -> self.length_unit
          [] k = ACCUMULATED_PRECIPITATION -> self.length_unit
          [] k = MASS -> self.mass_unit
          [] k = PRESSURE -> self.pressure_unit
          [] k = TEMPERATURE -> self.temperature_unit
          [] k = VOLUME -> self.volume_unit
          [] k = WIND_SPEED -> self.wind_speed_unit]

as_dict(self) ==
    [k \in {LENGTH, ACCUMULATED_PRECIPITATION, MASS, PRESSURE, TEMPERATURE,
            VOLUME, WIND_SPEED} |->
        CASE k = LENGTH -> self.length_unit
          [] k = ACCUMULATED_PRECIPITATION -> self.accumulated_precipitation_unit
          [] k = MASS -> self.mass_unit
          [] k = PRESSURE -> self.pressure_unit
          [] k = TEMPERATURE -> self.temperature_unit
          [] k = VOLUME -> self.volume_unit
          [] k = WIND_SPEED -> self.wind_speed_unit]

----------------------------------------------------------------------------
(* get_unit_system and validate_unit_system *)

\* variant: the deprecated key is still accepted
get_unit_system_imperial(key) ==
    IF key = _CONF_UNIT_SYSTEM_US_CUSTOMARY \/ key = _CONF_UNIT_SYSTEM_IMPERIAL
    THEN [raised |-> "None", ret |-> US_CUSTOMARY_SYSTEM]
    ELSE IF key = _CONF_UNIT_SYSTEM_METRIC
    THEN [raised |-> "None", ret |-> METRIC_SYSTEM]
    ELSE [raised |-> "ValueError",
          message |-> <<key, " is not a valid unit system key">>]

get_unit_system(key) ==
    IF key = _CONF_UNIT_SYSTEM_US_CUSTOMARY
    THEN [raised |-> "None", ret |-> US_CUSTOMARY_SYSTEM]
    ELSE IF key = _CONF_UNIT_SYSTEM_METRIC
    THEN [raised |-> "None", ret |-> METRIC_SYSTEM]
    ELSE [raised |-> "ValueError",
          message |-> <<key, " is not a valid unit system key">>]

UpperCase ==
    <<"A", "B", "C", "D", "E", "F", "G", "H", "I", "J", "K", "L", "M",
      "N", "O", "P", "Q", "R", "S", "T", "U", "V", "W", "X", "Y", "Z">>
LowerCase ==
    <<"a", "b", "c", "d", "e", "f", "g", "h", "i", "j", "k", "l", "m",
      "n", "o", "p", "q", "r", "s", "t", "u", "v", "w", "x", "y", "z">>

\* str.lower() on one character
LowerChar(c) ==
    IF \E i \in 1..Len(UpperCase) : UpperCase[i] = c
    THEN LowerCase[CHOOSE i \in 1..Len(UpperCase) : UpperCase[i] = c]
    ELSE c

\* vol.Lower: str(v).lower()
Lower(value) == [i \in 1..Len(value) |-> LowerChar(value[i])]

_deprecated_unit_system(value) ==
    IF value = _CONF_UNIT_SYSTEM_IMPERIAL THEN _CONF_UNIT_SYSTEM_US_CUSTOMARY
    ELSE value

\* vol.Any(_CONF_UNIT_SYSTEM_METRIC, _CONF_UNIT_SYSTEM_US_CUSTOMARY)
AnyCanonicalKey(value) ==
    IF value = _CONF_UNIT_SYSTEM_METRIC \/ value = _CONF_UNIT_SYSTEM_US_CUSTOMARY
    THEN [raised |-> "None", ret |-> value]
    ELSE [raised |-> "Invalid", value |-> value]

\* variant: the deprecated key is rewritten before the value is lower-cased
validate_unit_system_rewrite_first(value) ==
    AnyCanonicalKey(Lower(_deprecated_unit_system(value)))

\* vol.All(vol.Lower, _deprecated_unit_system, vol.Any(...)): each validator
\* is applied to the output of the one before
validate_unit_system(value) ==
    AnyCanonicalKey(_deprecated_unit_system(Lower(value)))

----------------------------------------------------------------------------
(* The OVO Energy config flow.  A mapping handed to a step is a record of  *)
(* its two keys, ABSENT for a key it lacks; NONE is Python's None.         *)

NONE == "<None>"
ABSENT == "<absent>"
NoInput == [kind |-> "None"]

CONF_USERNAME == "username"
CONF_PASSWORD == "password"

\* dict.get(key): None for a key that is absent
Get(mapping, key) ==
    LET v == IF key = CONF_USERNAME THEN mapping.username ELSE mapping.password
    IN  IF v = ABSENT THEN NONE ELSE v

\* the truth value of a mapping or None: a mapping with a key
Truthy(mapping) ==
    /\ mapping.kind # "None"
    /\ (mapping.username # ABSENT \/ mapping.password # ABSENT)

\* the truth value of a string or None
TruthyStr(v) == v # NONE /\ v # ""

\* self.async_show_form(step_id=..., data_schema=..., errors=errors)
async_show_form(step_id, data_schema, errors) ==
    [type |-> "form", step_id |-> step_id, data_schema |-> data_schema, errors |-> errors]

\* OVOEnergyFlowHandler.__init__
NewHandler == [username |-> NONE, unique_id |-> NONE, title_placeholders |-> NONE]

\* the entry, if any, whose unique id is unique_id
EntryOf(store, unique_id) == {e \in store : e.unique_id = unique_id}

\* async_step_user: auth is what client.authenticate does when it is called
async_step_user(h, store, user_input, auth) ==
    IF user_input.kind = "None"
    THEN [handler |-> h, calls |-> <<>>, written |-> <<>>,
          result |-> async_show_form("user", "USER_SCHEMA", {})]
    ELSE LET call == [username |-> user_input.username,
                      password |-> user_input.password, outcome |-> auth]
         IN  IF auth = "ClientError"
             THEN [handler |-> h, calls |-> <<call>>, written |-> <<>>,
                   result |-> async_show_form("user", "USER_SCHEMA",
                                              {<<"base", "cannot_connect">>})]
             ELSE IF auth = "true"
             THEN LET h1 == [h EXCEPT !.unique_id = user_input.username]
                  IN  IF EntryOf(store, user_input.username) # {}
                      THEN [handler |-> h1, calls |-> <<call>>, written |-> <<>>,
                            result |-> [type |-> "abort", reason |-> "already_configured"]]
                      ELSE [handler |-> h1, calls |-> <<call>>,
                            written |-> << [kind |-> "create",
                                            unique_id |-> h1.unique_id,
                                            data |-> [username |-> user_input.username,
                                                      password |-> user_input.password]] >>,
                            result |-> [type |-> "create_entry",
                                        title |-> call.username,
                                        data |-> [username |-> user_input.username,
                                                  password |-> user_input.password]]]
             ELSE [handler |-> h, calls |-> <<call>>, written |-> <<>>,
                   result |-> async_show_form("user", "USER_SCHEMA",
                                              {<<"base", "invalid_auth">>})]

\* variant: the username is taken from each invocation, kept or not
async_step_reauth_forgets(h, store, entry_data, auth) ==
    LET h1 == [h EXCEPT !.username =
                  IF entry_data.kind = "None" THEN NONE ELSE Get(entry_data, CONF_USERNAME)]
        h2 == [h1 EXCEPT !.title_placeholders = h1.username]
    IN  IF entry_data.kind # "None" /\ Get(entry_data, CONF_PASSWORD) # NONE
        THEN LET call == [username |-> h2.username,
                          password |-> entry_data.password, outcome |-> auth]
             IN  IF auth = "ClientError"
                 THEN [handler |-> h2, calls |-> <<call>>, written |-> <<>>,
                       result |-> async_show_form("reauth", "REAUTH_SCHEMA",
                                                  {<<"base", "connection_error">>})]
                 ELSE IF auth = "true"
                 THEN LET h3 == [h2 EXCEPT !.unique_id = h2.username]
                      IN  IF EntryOf(store, h3.unique_id) = {}
                          THEN [handler |-> h3, calls |-> <<call>>, written |-> <<>>,
                                result |-> [type |-> "error",
                                            exception |-> "AttributeError"]]
                          ELSE [handler |-> h3, calls |-> <<call>>,
                                written |-> << [kind |-> "update",
                                                unique_id |-> h3.unique_id,
                                                data |-> [username |-> h3.username,
                                                          password |-> entry_data.password]] >>,
                                result |-> [type |-> "abort",
                                            reason |-> "reauth_successful"]]
                 ELSE [handler |-> h2, calls |-> <<call>>, written |-> <<>>,
                       result |-> async_show_form("reauth", "REAUTH_SCHEMA",
                                                  {<<"base", "authorization_error">>})]
        ELSE [handler |-> h2, calls |-> <<>>, written |-> <<>>,
              result |-> async_show_form("reauth", "REAUTH_SCHEMA", {})]

\* async_step_reauth: auth is what client.authenticate does when it is called
async_step_reauth(h, store, entry_data, auth) ==
    LET h1 == IF Truthy(entry_data) /\ TruthyStr(Get(entry_data, CONF_USERNAME))
              THEN [h EXCEPT !.username = entry_data.username]
              ELSE h
        h2 == [h1 EXCEPT !.title_placeholders = h1.username]
    IN  IF entry_data.kind # "None" /\ Get(entry_data, CONF_PASSWORD) # NONE
        THEN LET call == [username |-> h2.username,
                          password |-> entry_data.password, outcome |-> auth]
             IN  IF auth = "ClientError"
                 THEN [handler |-> h2, calls |-> <<call>>, written |-> <<>>,
                       result |-> async_show_form("reauth", "REAUTH_SCHEMA",
                                                  {<<"base", "connection_error">>})]
                 ELSE IF auth = "true"
                 THEN LET h3 == [h2 EXCEPT !.unique_id = h2.username]
                      IN  IF EntryOf(store, h3.unique_id) = {}
                          THEN [handler |-> h3, calls |-> <<call>>, written |-> <<>>,
                                result |-> [type |-> "error",
                                            exception |-> "AttributeError"]]
                          ELSE [handler |-> h3, calls |-> <<call>>,
                                written |-> << [kind |-> "update",
                                                unique_id |-> h3.unique_id,
                                                data |-> [username |-> h3.username,
                                                          password |-> entry_data.password]] >>,
                                result |-> [type |-> "abort",
                                            reason |-> "reauth_successful"]]
                 ELSE [handler |-> h2, calls |-> <<call>>, written |-> <<>>,
                       result |-> async_show_form("reauth", "REAUTH_SCHEMA",
                                                  {<<"base", "authorization_error">>})]
        ELSE [handler |-> h2, calls |-> <<>>, written |-> <<>>,
              result |-> async_show_form("reauth", "REAUTH_SCHEMA", {})]

\* the config entries after the writes of a step
ApplyWrites(store, written) ==
    IF written = <<>> THEN store
    ELSE {e \in store : e.unique_id # written[1].unique_id}
         \cup {[unique_id |-> written[1].unique_id, data |-> written[1].data]}

(* The inputs of the steps. *)

Usernames == {"alice", "bob"}
Passwords == {"pw1", "pw2"}
AuthOutcomes == {"true", "false", "ClientError"}

\* USER_SCHEMA: both keys are required
USER_SCHEMA == [kind : {"dict"}, username : Usernames, password : Passwords]

\* REAUTH_SCHEMA: the password is required and no other key is allowed
REAUTH_SCHEMA == [kind : {"dict"}, username : {ABSENT}, password : Passwords]

\* what a reauth flow may be started with: the data of an entry, whole or in
\* part, an empty username included, or nothing
ReauthData ==
    [kind : {"dict"}, username : Usernames \cup {"", ABSENT},
     password : Passwords \cup {ABSENT}]
    \cup {NoInput}

\* the effect of one step invocation whose outcome is r: the flow waits at
\* the form it shows, stays where it is when a submission raises, and is
\* over otherwise
Invoked(step, input, first, r) ==
    /\ handler' = [source |-> step,
                   cur_step |-> IF r.result.type = "form" THEN r.result.step_id
                                ELSE IF r.result.type = "error" /\ ~first
                                     THEN handler.cur_step
                                ELSE "finished",
                   self |-> r.handler]
    /\ entries' = ApplyWrites(entries, r.written)
    /\ flowLast' = [step |-> step, input |-> input, calls |-> r.calls,
                    written |-> r.written, result |-> r.result]

\* a flow is started from the user source: the user step runs without input
Init_user ==
    /\ Invoked("user", NoInput, TRUE, async_step_user(NewHandler, entries, NoInput, "false"))
    /\ firstSupplied' = NONE
    /\ UNCHANGED unitVars

\* the user form is submitted
Configure_user ==
    \E user_input \in USER_SCHEMA, auth \in AuthOutcomes :
        /\ handler.source = "user"
        /\ handler.cur_step = "user"
        /\ Invoked("user", user_input, FALSE,
                   async_step_user(handler.self, entries, user_input, auth))
        /\ UNCHANGED firstSupplied
        /\ UNCHANGED unitVars

\* a flow is started from the reauth source with entry data
Init_reauth ==
    \E entry_data \in ReauthData, auth \in AuthOutcomes :
        /\ Invoked("reauth", entry_data, TRUE,
                   async_step_reauth(NewHandler, entries, entry_data, auth))
        /\ firstSupplied' = IF entry_data.kind # "None" /\ entry_data.username \notin {ABSENT, ""}
                            THEN entry_data.username ELSE NONE
        /\ UNCHANGED unitVars

\* the reauth form is submitted
Configure_reauth ==
    \E user_input \in REAUTH_SCHEMA, auth \in AuthOutcomes :
        /\ handler.source = "reauth"
        /\ handler.cur_step = "reauth"
        /\ Invoked("reauth", user_input, FALSE,
                   async_step_reauth(handler.self, entries, user_input, auth))
        /\ UNCHANGED firstSupplied
        /\ UNCHANGED unitVars

NextFlow ==
    \/ Init_user
    \/ Configure_user
    \/ Init_reauth
    \/ Configure_reauth

----------------------------------------------------------------------------
(* The inputs the calls are made with. *)

\* constructor arguments: per category the metric unit and a unit of another
\* category; for accumulated precipitation also a length that is no
\* precipitation unit
ConstructorArgs ==
    [name : {_CONF_UNIT_SYSTEM_METRIC, _CONF_UNIT_SYSTEM_US_CUSTOMARY},
     temperature : {TEMP_CELSIUS, "km"},
     length : {LENGTH_KILOMETERS, "°C"},
     wind_speed : {SPEED_METERS_PER_SECOND, "g"},
     volume : {VOLUME_LITERS, "psi"},
     mass : {MASS_GRAMS, "L"},
     pressure : {PRESSURE_PA, "mm"},
     accumulated_precipitation : {LENGTH_MILLIMETERS, "km", "g"}]

\* the constructor arguments used while the whole interface is exercised:
\* bundles with the metric units under either name, and a bad length
RegistryArgs ==
    {a \in ConstructorArgs :
        /\ a.temperature = TEMP_CELSIUS
        /\ a.wind_speed = SPEED_METERS_PER_SECOND
        /\ a.volume = VOLUME_LITERS
        /\ a.mass = MASS_GRAMS
        /\ a.pressure = PRESSURE_PA
        /\ a.accumulated_precipitation = LENGTH_MILLIMETERS}

\* Python values handed to the conversion methods
Values ==
    {[type |-> "int", str |-> "5"],
     [type |-> "float", str |-> "2.5"],
     [type |-> "str", str |-> "5"],
     [type |-> "NoneType", str |-> "None"]}

FromUnits == {"mi", "parsec"}

\* what a converter may do when called: return a number or raise
ConverterOutcomes ==
    {[raised |-> "None", ret |-> "converted"],
     [raised |-> "HomeAssistantError", ret |-> "nothing"]}

UpperChar(c) ==
    IF \E i \in 1..Len(LowerCase) : LowerCase[i] = c
    THEN UpperCase[CHOOSE i \in 1..Len(LowerCase) : LowerCase[i] = c]
    ELSE c

\* key with the characters at the positions in S upper-cased
CaseVariant(key, S) ==
    [i \in 1..Len(key) |-> IF i \in S THEN UpperChar(key[i]) ELSE key[i]]

CaseVariants(key) ==
    {CaseVariant(key, S) : S \in SUBSET (1..CaseBits) \cup {1..Len(key)}}

Keys ==
    CaseVariants(_CONF_UNIT_SYSTEM_METRIC)
    \cup CaseVariants(_CONF_UNIT_SYSTEM_US_CUSTOMARY)
    \cup CaseVariants(_CONF_UNIT_SYSTEM_IMPERIAL)
    \cup { <<>>,
           <<"k", "e", "l", "v", "i", "n", "-", "s", "y", "s", "t", "e", "m">>,
           <<"m", "e", "t", "r", "i", "c", "s">>,
           <<"i", "m", "p", "e", "r", "i", "a">>,
           <<"u", "s", "-", "c", "u", "s", "t", "o", "m", "a", "r", "y">> }

----------------------------------------------------------------------------
(* The state after the module is imported, and the calls made one at a    *)
(* time.                                                                   *)

Ids == 1..Len(objects)

NoCall == [op |-> "import"]

Init ==
    /\ objects = Allocate(Allocate(<<>>, UnitSystem__init__(METRIC_SYSTEM_ARGS).attributes),
                          UnitSystem__init__(US_CUSTOMARY_SYSTEM_ARGS).attributes)
    /\ supplied = <<METRIC_SYSTEM_ARGS, US_CUSTOMARY_SYSTEM_ARGS>>
    /\ last = NoCall
    /\ callers = EmptyBag
    /\ handler = [source |-> "none", cur_step |-> "finished", self |-> NewHandler]
    /\ entries = {}
    /\ flowLast = [step |-> "none"]
    /\ firstSupplied = NONE

\* UnitSystem(name, temperature, length, wind_speed, volume, mass, pressure,
\* accumulated_precipitation) with arguments from `args`
Construct(args) ==
    \E a \in args :
        LET r == UnitSystem__init__(a)
        IN  IF r.raised = "None"
            THEN /\ Len(objects) < 2 + MaxObjects
                 /\ objects' = Allocate(objects, r.attributes)
                 /\ supplied' = Append(supplied, a)
                 /\ last' = [op |-> "UnitSystem", args |-> a, raised |-> "None",
                             ret |-> Len(objects) + 1]
            ELSE /\ UNCHANGED <<objects, supplied>>
                 /\ last' = [op |-> "UnitSystem", args |-> a, raised |-> r.raised,
                             message |-> r.message]

Call_UnitSystem == Construct(RegistryArgs) /\ UNCHANGED <<callers, flowVars>>

Call_name ==
    \E self \in Ids :
        /\ last' = [op |-> "name", self |-> self, outcome |-> name(objects, self)]
        /\ UNCHANGED <<objects, supplied, callers, flowVars>>

Call_is_metric ==
    \E self \in Ids :
        /\ last' = [op |-> "is_metric", self |-> self, outcome |-> is_metric(objects, self)]
        /\ UNCHANGED <<objects, supplied, callers, flowVars>>

\* the record of one conversion call whose outcome is r
Converted(op, self, value, from_unit, r) ==
    /\ last' = [op |-> op, self |-> self, value |-> value, from_unit |-> from_unit,
                outcome |-> r]
    /\ UNCHANGED <<objects, supplied, callers, flowVars>>

Call_temperature ==
    \E self \in Ids, value \in Values, from_unit \in FromUnits, o \in ConverterOutcomes :
        Converted("temperature", self, value, from_unit,
                  temperature(objects[self], value, from_unit, o))

Call_length ==
    \E self \in Ids, value \in Values, from_unit \in FromUnits, o \in ConverterOutcomes :
        Converted("length", self, value, from_unit,
                  length(objects[self], value, from_unit, o))

Call_accumulated_precipitation ==
    \E self \in Ids, value \in Values, from_unit \in FromUnits, o \in ConverterOutcomes :
        Converted("accumulated_precipitation", self, value, from_unit,
                  accumulated_precipitation(objects[self], value, from_unit, o))

Call_pressure ==
    \E self \in Ids, value \in Values, from_unit \in FromUnits, o \in ConverterOutcomes :
        Converted("pressure", self, value, from_unit,
                  pressure(objects[self], value, from_unit, o))

Call_wind_speed ==
    \E self \in Ids, value \in Values, from_unit \in FromUnits, o \in ConverterOutcomes :
        Converted("wind_speed", self, value, from_unit,
                  wind_speed(objects[self], value, from_unit, o))

Call_volume ==
    \E self \in Ids, value \in Values, from_unit \in FromUnits, o \in ConverterOutcomes :
        Converted("volume", self, value, from_unit,
                  volume(objects[self], value, from_unit, o))

Call_as_dict ==
    \E self \in Ids :
        /\ last' = [op |-> "as_dict", self |-> self, ret |-> as_dict(objects[self])]
        /\ UNCHANGED <<objects, supplied, callers, flowVars>>

Call_get_unit_system ==
    \E key \in Keys :
        /\ last' = [op |-> "get_unit_system", key |-> key, outcome |-> get_unit_system(key)]
        /\ UNCHANGED <<objects, supplied, callers, flowVars>>

Call_validate_unit_system ==
    \E value \in Keys :
        /\ last' = [op |-> "validate_unit_system", value |-> value,
                    outcome |-> validate_unit_system(value)]
        /\ UNCHANGED <<objects, supplied, callers, flowVars>>

Next ==
    \/ Call_UnitSystem
    \/ Call_name
    \/ Call_is_metric
    \/ Call_temperature
    \/ Call_length
    \/ Call_accumulated_precipitation
    \/ Call_pressure
    \/ Call_wind_speed
    \/ Call_volume
    \/ Call_as_dict
    \/ Call_get_unit_system
    \/ Call_validate_unit_system

vars == <<unitVars, flowVars>>

Spec == Init /\ [][Next]_vars

(* The constructor on its own, over every combination of valid and invalid *)
(* units, with as_dict on what it builds.                                  *)

Call_UnitSystem_any == Construct(ConstructorArgs) /\ UNCHANGED <<callers, flowVars>>

NextConstruct ==
    \/ Call_UnitSystem_any
    \/ Call_as_dict

SpecConstruct == Init /\ [][NextConstruct]_vars

\* the config flow on its own
SpecFlow == Init /\ [][NextFlow]_vars

----------------------------------------------------------------------------
(* Concurrent callers.  A caller obtains a canonical bundle from            *)
(* validate_unit_system and get_unit_system and calls a method on it; the  *)
(* call is entered, runs (this is where it reads the bundle) and returns,  *)
(* and other callers and constructor calls take their steps in between.    *)

BundleMethods == {"temperature", "length", "accumulated_precipitation", "pressure",
                  "wind_speed", "volume", "as_dict", "name", "is_metric"}

\* the raw keys the concurrent callers start from
CallerKeys == {_CONF_UNIT_SYSTEM_METRIC, CaseVariant(_CONF_UNIT_SYSTEM_IMPERIAL, {1})}

\* the value, unit and converter outcome the concurrent conversions use
CallerValue == [type |-> "int", str |-> "5"]
CallerFromUnit == "mi"
CallerOutcome == [raised |-> "None", ret |-> "converted"]

\* what the method returns when run on the heap: for a conversion the
\* converter call it makes, for the others their outcome
RunMethod(heap, method, self) ==
    CASE method = "temperature" ->
            [calls |-> temperature(heap[self], CallerValue, CallerFromUnit, CallerOutcome).calls]
      [] method = "length" ->
            [calls |-> length(heap[self], CallerValue, CallerFromUnit, CallerOutcome).calls]
      [] method = "accumulated_precipitation" ->
            [calls |-> accumulated_precipitation(heap[self], CallerValue, CallerFromUnit,
                                      CallerOutcome).calls]
      [] method = "pressure" ->
            [calls |-> pressure(heap[self], CallerValue, CallerFromUnit, CallerOutcome).calls]
      [] method = "wind_speed" ->
            [calls |-> wind_speed(heap[self], CallerValue, CallerFromUnit, CallerOutcome).calls]
      [] method = "volume" ->
            [calls |-> volume(heap[self], CallerValue, CallerFromUnit, CallerOutcome).calls]
      [] method = "as_dict" -> [as_dict |-> as_dict(heap[self])]
      [] method = "name" -> [name |-> name(heap, self)]
      [] method = "is_metric" -> [is_metric |-> is_metric(heap, self)]

Enter ==
    \E raw \in CallerKeys, method \in BundleMethods :
        LET key == validate_unit_system(raw)
            unit_system == get_unit_system(key.ret)
        IN  /\ BagCardinality(callers) < NumCallers
            /\ key.raised = "None"
            /\ unit_system.raised = "None"
            /\ callers' = callers (+) SetToBag({[pc |-> "entered", method |-> method,
                                                self |-> unit_system.ret]})
            /\ UNCHANGED <<objects, supplied, last, flowVars>>

Run ==
    \E f \in BagToSet(callers) :
        /\ f.pc = "entered"
        /\ callers' = (callers (-) SetToBag({f}))
                      (+) SetToBag({[pc |-> "returning", method |-> f.method,
                                     self |-> f.self,
                                     result |-> RunMethod(objects, f.method, f.self)]})
        /\ UNCHANGED <<objects, supplied, last, flowVars>>

Return ==
    \E f \in BagToSet(callers) :
        /\ f.pc = "returning"
        /\ callers' = callers (-) SetToBag({f})
        /\ UNCHANGED <<objects, supplied, last, flowVars>>

NextConcurrent ==
    \/ Call_UnitSystem
    \/ Enter
    \/ Run
    \/ Return

SpecConcurrent == Init /\ [][NextConcurrent]_vars

----------------------------------------------------------------------------
(* What the claims are stated with. *)

ConversionMethods ==
    {"temperature", "length", "accumulated_precipitation", "pressure",
     "wind_speed", "volume"}

\* the valid unit set of each of the seven categories
ValidUnitsOf(category) ==
    CASE category = "temperature" -> TEMPERATURE_UNITS
      [] category = "length" -> LENGTH_UNITS
      [] category = "wind_speed" -> WIND_SPEED_UNITS
      [] category = "volume" -> VOLUME_UNITS
      [] category = "mass" -> MASS_UNITS
      [] category = "pressure" -> PRESSURE_UNITS
      [] category = "accumulated_precipitation" -> LENGTH_UNITS

\* the (unit, category) pairs a constructor call supplies
SuppliedPairs(a) ==
    { <<a.temperature, "temperature">>, <<a.length, "length">>,
      <<a.wind_speed, "wind_speed">>, <<a.volume, "volume">>,
      <<a.mass, "mass">>, <<a.pressure, "pressure">>,
      <<a.accumulated_precipitation, "accumulated_precipitation">> }

InvalidPairs(a) == {p \in SuppliedPairs(a) : p[1] \notin ValidUnitsOf(p[2])}

\* the units a bundle stores, by category
StoredPairs(obj) ==
    { <<obj.temperature_unit, "temperature">>, <<obj.length_unit, "length">>,
      <<obj.wind_speed_unit, "wind_speed">>, <<obj.volume_unit, "volume">>,
      <<obj.mass_unit, "mass">>, <<obj.pressure_unit, "pressure">>,
      <<obj.accumulated_precipitation_unit, "accumulated_precipitation">> }

\* the (unit, category) pairs an error message names: its items are six
\* tokens apart, the separator included
MentionedPairs(message) ==
    { <<message[i + 1], message[i + 3]>> : i \in {k \in 1..Len(message) : k % 6 = 1} }

\* C1: a constructor call succeeds exactly when each of the seven units is in
\* its category's valid set (accumulated precipitation in the length set); on
\* success the bundle stores the supplied units; no bundle with a unit outside
\* its category's set ever exists.
C1_ConstructionIffValid ==
    /\ last.op = "UnitSystem" =>
          /\ (last.raised = "None") <=> (InvalidPairs(last.args) = {})
          /\ last.raised = "None" =>
                /\ last.ret \in Ids
                /\ StoredPairs(objects[last.ret]) = SuppliedPairs(last.args)
          /\ last.raised # "None" => last.raised = "ValueError"
    /\ \A id \in Ids : \A p \in StoredPairs(objects[id]) : p[1] \in ValidUnitsOf(p[2])

\* a bundle was built whose precipitation unit is a length but no precipitation unit
C1_Witness ==
    /\ last.op = "UnitSystem"
    /\ last.raised = "None"
    /\ last.args.accumulated_precipitation = "km"
    /\ objects[last.ret].accumulated_precipitation_unit = "km"

\* C2: the error of a failed constructor call names every invalid
\* (unit, category) pair of the call and no valid one.
C2_ErrorListsEveryInvalidPair ==
    (last.op = "UnitSystem" /\ last.raised = "ValueError") =>
        /\ MentionedPairs(last.message) = InvalidPairs(last.args)
        /\ Len(last.message) = 6 * Cardinality(InvalidPairs(last.args)) - 1

\* an invalid length together with an invalid mass: the error names both
C2_Witness ==
    /\ last.op = "UnitSystem"
    /\ last.raised = "ValueError"
    /\ last.args.length \notin LENGTH_UNITS
    /\ last.args.mass \notin MASS_UNITS
    /\ {<<last.args.length, "length">>, <<last.args.mass, "mass">>}
          \subseteq MentionedPairs(last.message)

\* C3: get_unit_system returns the canonical metric instance for exactly the
\* key "metric" and the canonical US customary instance for exactly the key
\* "us_customary", whatever ran before; any other key fails with an error
\* naming the key.
C3_LookupByKey ==
    last.op = "get_unit_system" =>
        IF last.key = <<"m", "e", "t", "r", "i", "c">>
        THEN /\ last.outcome = [raised |-> "None", ret |-> METRIC_SYSTEM]
             /\ objects[last.outcome.ret] = InitAttributes(METRIC_SYSTEM_ARGS)
        ELSE IF last.key = <<"u", "s", "_", "c", "u", "s", "t", "o", "m", "a", "r", "y">>
        THEN /\ last.outcome = [raised |-> "None", ret |-> US_CUSTOMARY_SYSTEM]
             /\ objects[last.outcome.ret] = InitAttributes(US_CUSTOMARY_SYSTEM_ARGS)
        ELSE /\ last.outcome.raised = "ValueError"
             /\ \E i \in 1..Len(last.outcome.message) : last.outcome.message[i] = last.key

\* the metric key looked up after another bundle was constructed
C3_Witness ==
    /\ last.op = "get_unit_system"
    /\ last.key = _CONF_UNIT_SYSTEM_METRIC
    /\ last.outcome.raised = "None"
    /\ Len(objects) > 2

\* raw differs from key in the case of its letters only
IsCaseVariant(raw, key) ==
    /\ Len(raw) = Len(key)
    /\ \A i \in 1..Len(key) : raw[i] = key[i] \/ raw[i] = UpperChar(key[i])

\* C4: validate_unit_system maps every case variant of "imperial" and of
\* "us_customary" to "us_customary", every case variant of "metric" to
\* "metric", rejects everything else, and returns only keys that
\* get_unit_system accepts.
C4_ValidateUnitSystem ==
    last.op = "validate_unit_system" =>
        IF \/ IsCaseVariant(last.value, _CONF_UNIT_SYSTEM_IMPERIAL)
           \/ IsCaseVariant(last.value, _CONF_UNIT_SYSTEM_US_CUSTOMARY)
        THEN /\ last.outcome = [raised |-> "None", ret |-> _CONF_UNIT_SYSTEM_US_CUSTOMARY]
             /\ get_unit_system(last.outcome.ret).raised = "None"
        ELSE IF IsCaseVariant(last.value, _CONF_UNIT_SYSTEM_METRIC)
        THEN /\ last.outcome = [raised |-> "None", ret |-> _CONF_UNIT_SYSTEM_METRIC]
             /\ get_unit_system(last.outcome.ret).raised = "None"
        ELSE last.outcome.raised = "Invalid"

\* "IMPERIAL" was validated
C4_Witness ==
    /\ last.op = "validate_unit_system"
    /\ last.value = <<"I", "M", "P", "E", "R", "I", "A", "L">>
    /\ last.outcome.raised = "None"

\* C5: a conversion method called with a value that is no number raises a
\* TypeError naming the value and calls no converter.
C5_NonNumericRejected ==
    (last.op \in ConversionMethods /\ last.value.type \in {"str", "NoneType"}) =>
        /\ last.outcome.raised = "TypeError"
        /\ last.outcome.message[1] = last.value.str
        /\ last.outcome.calls = <<>>

\* a text value was handed to a conversion method
C5_Witness ==
    /\ last.op = "accumulated_precipitation"
    /\ last.value.type = "str"
    /\ last.outcome.raised = "TypeError"

\* C6: every access to name or is_metric reports a deprecation notice; name
\* returns "imperial" for the canonical US customary instance and the stored
\* name for every other bundle; is_metric is true exactly for the canonical
\* metric instance.
C6_DeprecatedAccessors ==
    /\ last.op = "name" =>
          /\ last.outcome.reported >= 1
          /\ last.outcome.ret =
                IF last.self = US_CUSTOMARY_SYSTEM
                THEN <<"i", "m", "p", "e", "r", "i", "a", "l">>
                ELSE supplied[last.self].name
          /\ last.self = US_CUSTOMARY_SYSTEM =>
                last.outcome.ret # objects[last.self]._name
    /\ last.op = "is_metric" =>
          /\ last.outcome.reported >= 1
          /\ last.outcome.ret = (last.self = METRIC_SYSTEM)

\* is_metric was read on a bundle that equals the metric one in name and units
C6_Witness ==
    /\ last.op = "is_metric"
    /\ last.self # METRIC_SYSTEM
    /\ objects[last.self] = objects[METRIC_SYSTEM]
    /\ last.outcome.ret = FALSE

\* the converter and the configured unit each conversion method uses
ConverterOf(method) ==
    CASE method = "temperature" -> "TemperatureConverter"
      [] method = "length" -> "DistanceConverter"
      [] method = "accumulated_precipitation" -> "DistanceConverter"
      [] method = "pressure" -> "PressureConverter"
      [] method = "wind_speed" -> "SpeedConverter"
      [] method = "volume" -> "VolumeConverter"

ConfiguredUnit(a, method) ==
    CASE method = "temperature" -> a.temperature
      [] method = "length" -> a.length
      [] method = "accumulated_precipitation" -> a.accumulated_precipitation
      [] method = "pressure" -> a.pressure
      [] method = "wind_speed" -> a.wind_speed
      [] method = "volume" -> a.volume

\* C7: a conversion method called with a number calls its category's
\* converter once, with (value, from_unit, the bundle's unit for the
\* category), whatever from_unit is, and returns or raises what that call
\* returns or raises; accumulated_precipitation uses the distance converter
\* and the accumulated precipitation unit.
C7_ConversionDelegates ==
    (last.op \in ConversionMethods /\ last.value.type \in {"int", "float"}) =>
        /\ Len(last.outcome.calls) = 1
        /\ last.outcome.calls[1].converter = ConverterOf(last.op)
        /\ last.outcome.calls[1].value = last.value
        /\ last.outcome.calls[1].from_unit = last.from_unit
        /\ last.outcome.calls[1].to_unit = ConfiguredUnit(supplied[last.self], last.op)
        /\ last.outcome.raised = last.outcome.calls[1].outcome.raised
        /\ last.outcome.ret = last.outcome.calls[1].outcome.ret

\* accumulated precipitation converted by the metric bundle from an unknown unit
C7_Witness ==
    /\ last.op = "accumulated_precipitation"
    /\ last.self = METRIC_SYSTEM
    /\ last.value.type = "float"
    /\ last.from_unit = "parsec"
    /\ last.outcome.raised = "None"
    /\ last.outcome.calls[1].to_unit = "mm"
    /\ last.outcome.calls[1].to_unit # objects[last.self].length_unit

\* C9: as_dict returns a mapping with exactly the seven category keys, each
\* mapped to the unit the bundle was constructed with; for the metric bundle
\* it is length->km, accumulated_precipitation->mm, mass->g, pressure->Pa,
\* temperature->°C, volume->L, wind_speed->m/s.
C9_AsDict ==
    last.op = "as_dict" =>
        /\ DOMAIN last.ret = {"length", "accumulated_precipitation", "mass", "pressure",
                              "temperature", "volume", "wind_speed"}
        /\ {<<last.ret[k], k>> : k \in DOMAIN last.ret} = SuppliedPairs(supplied[last.self])
        /\ last.self = METRIC_SYSTEM =>
              last.ret = [length |-> "km", accumulated_precipitation |-> "mm",
                          mass |-> "g", pressure |-> "Pa", temperature |-> "°C",
                          volume |-> "L", wind_speed |-> "m/s"]

\* as_dict on a constructed bundle whose precipitation unit differs from the metric one
C9_Witness ==
    /\ last.op = "as_dict"
    /\ last.self > US_CUSTOMARY_SYSTEM
    /\ last.ret["accumulated_precipitation"] = "km"
    /\ last.ret["length"] = "km"

\* C8: whatever the callers do and however their calls interleave, the two
\* canonical bundles keep the name and the seven units they were constructed
\* with, and "imperial" stays the US customary object.
C8_CanonicalBundlesUnchanged ==
    /\ objects[METRIC_SYSTEM] =
          [_name |-> <<"m", "e", "t", "r", "i", "c">>,
           temperature_unit |-> "°C", length_unit |-> "km",
           wind_speed_unit |-> "m/s", volume_unit |-> "L", mass_unit |-> "g",
           pressure_unit |-> "Pa", accumulated_precipitation_unit |-> "mm"]
    /\ objects[US_CUSTOMARY_SYSTEM] =
          [_name |-> <<"u", "s", "_", "c", "u", "s", "t", "o", "m", "a", "r", "y">>,
           temperature_unit |-> "°F", length_unit |-> "mi",
           wind_speed_unit |-> "mph", volume_unit |-> "gal", mass_unit |-> "lb",
           pressure_unit |-> "psi", accumulated_precipitation_unit |-> "in"]
    /\ IMPERIAL_SYSTEM = US_CUSTOMARY_SYSTEM

\* two callers are inside methods of the same canonical bundle, one entered
\* and one about to return, after another bundle was constructed
C8_Witness ==
    /\ Len(objects) > 2
    /\ \E f \in BagToSet(callers), g \in BagToSet(callers) :
          /\ f.pc = "entered"
          /\ g.pc = "returning"
          /\ f.self = g.self
          /\ f.self = IMPERIAL_SYSTEM

\* the base error code of a step for an authenticate call that did not return true
ErrorCode(step, outcome) ==
    CASE step = "user" /\ outcome = "ClientError" -> "cannot_connect"
      [] step = "user" /\ outcome = "false" -> "invalid_auth"
      [] step = "reauth" /\ outcome = "ClientError" -> "connection_error"
      [] step = "reauth" /\ outcome = "false" -> "authorization_error"

====
